---- MODULE Spec2Model ----
(***************************************************************************)
(* Verification model of the Spectrum_Decisions scripts:                   *)
(*   Decisions.py  - incremental crawler of decision pages and the table   *)
(*                   extractor (cursor file, link extraction, frequency    *)
(*                   formatting, tier/area split)                          *)
(*   database.py   - tier loader (load_and_join_tiers,                     *)
(*                   create_and_populate_tables)                           *)
(* Text is modelled as a sequence of one-character strings, a URL as a     *)
(* sequence of tokens (scheme+host token, path token), so that string      *)
(* concatenation, prefix tests, splitting and regex scanning are computed. *)
(***************************************************************************)
EXTENDS Integers, Sequences, FiniteSets, TLC

VARIABLES
    \* ---- extract_decision_links (Decisions.py 62-78)
    main_soup,           \* the listing: the rows selected on the listing page
    last_visited,   \* the cursor argument
    links,          \* the returned list
    lpc             \* "idle" | "call" | "done"

linkVars == <<main_soup, last_visited, links, lpc>>

VARIABLES
    \* ---- format_frequency_range (Decisions.py 91-104)
    freq_input,     \* the argument, a text
    formatted,      \* the returned text
    fpc             \* "idle" | "call" | "done"

freqVars == <<freq_input, formatted, fpc>>

VARIABLES
    \* ---- the cursor file and get_last_visited / save_last_visited (46-60)
    file,           \* content of LAST_VISITED_FILE
    got,            \* outcome of the last get_last_visited call
    saved,          \* href of the last save_last_visited call that wrote the file
    cpc             \* "idle" | "ready" | "got" | "saved"

cursorVars == <<got, saved, cpc>>

VARIABLES
    \* ---- main of Decisions.py (155-172), one process run after another
    run,            \* number of the current run
    pc,             \* position in main
    listing,        \* the listing page the site serves
    decision_links, \* line 161
    link_index,     \* position of the for loop of line 164
    decision_soup,  \* line 165: "page" or "none"
    \* history, read only by the properties
    start_file,     \* the cursor file when the run started
    fetched_ok,     \* links whose page was fetched in this run
    visited,        \* links passed to fetch_decision_page in this run, in order
    written,        \* links this run wrote to the cursor file
    prev            \* the previous run: its links, what it wrote, how it ended

crawlVars == <<run, pc, listing, decision_links, link_index, decision_soup,
               start_file, fetched_ok, visited, written, prev>>

VARIABLES
    \* ---- extract_data (Decisions.py 106-152)
    page_soup,      \* the parsed decision page, or NoSoup
    data_list,      \* outcome of the call
    epc             \* "idle" | "call" | "done"

extractVars == <<page_soup, data_list, epc>>

VARIABLES
    \* ---- database.py: load_and_join_tiers, create_and_populate_tables
    archive,        \* tier number -> the tier's .tab file in the zip, or Missing
    tier_gdfs,      \* outcome of load_and_join_tiers
    store,          \* table name -> table of the DuckDB database
    calls,          \* completed calls of create_and_populate_tables
    dpc             \* "idle" | "start" | "loaded" | "failed"

loaderVars == <<archive, tier_gdfs, store, calls, dpc>>

vars == <<linkVars, freqVars, file, cursorVars, crawlVars, extractVars, loaderVars>>

----------------------------------------------------------------------------
(* Generic helpers                                                          *)

Reverse(s) == [i \in 1..Len(s) |-> s[Len(s) + 1 - i]]

Range(s) == {s[i] : i \in 1..Len(s)}

SeqsUpTo(S, n) == UNION {[1..k -> S] : k \in 0..n}

\* Python's None, as a value of the same shape as a URL
None == <<"None">>

----------------------------------------------------------------------------
(* Decisions.py: URLs and the listing                                       *)

BASE_URL == "https://ised-isde.canada.ca"

OTHER_URL == "http://other.example"

\* str.startswith('http') on a token sequence: the first token is a scheme+host
StartsWithHttp(href) == Len(href) > 0 /\ Head(href) \in {BASE_URL, OTHER_URL}

\* an <a> element without an href attribute
NoHref == <<"a-without-href">>

\* row.find('a', href=True) found nothing
NoLink == <<"no-link">>

\* line 68: the first <a> of the row that carries an href
find_a_href(row) ==
    LET idx == {i \in 1..Len(row) : row[i] # NoHref}
    IN IF idx = {} THEN NoLink
       ELSE row[CHOOSE i \in idx : \A j \in idx : i <= j]

\* line 71
full_href(href) == IF ~StartsWithHttp(href) THEN <<BASE_URL>> \o href ELSE href

\* the scan loop with the break turned into a skip of the cursor row
RECURSIVE scan_rows_nobreak(_, _, _, _)
scan_rows_nobreak(rows, i, cursor, acc) ==
    IF i > Len(rows) THEN acc
    ELSE LET link == find_a_href(rows[i])
         IN IF link = NoLink \/ full_href(link) = cursor
            THEN scan_rows_nobreak(rows, i + 1, cursor, acc)
            ELSE scan_rows_nobreak(rows, i + 1, cursor, Append(acc, full_href(link)))

\* lines 66-76: the scan loop with its break
RECURSIVE scan_rows(_, _, _, _)
scan_rows(rows, i, cursor, acc) ==
    IF i > Len(rows) THEN acc
    ELSE LET link == find_a_href(rows[i])
         IN IF link = NoLink THEN scan_rows(rows, i + 1, cursor, acc)
            ELSE IF full_href(link) = cursor THEN acc
            ELSE scan_rows(rows, i + 1, cursor, Append(acc, full_href(link)))

\* line 78 without the reversal
result_order_unreversed(acc) == acc

\* line 78
result_order(acc) == Reverse(acc)

extract_decision_links(rows, cursor) == result_order(scan_rows(rows, 1, cursor, <<>>))

----------------------------------------------------------------------------
(* Decisions.py: format_frequency_range (lines 91-104)                      *)
(* The pattern of line 93 is                                                *)
(*   (\d{3,4})- ?(\d{3,4}) | (\d{3,4})/ ?(\d{3,4})                          *)
(*                          | (\d{3,4})-(\d{3,4})(\d{3,4})-(\d{3,4})        *)
(* matched as re.findall does: leftmost position first, at a position the   *)
(* alternatives in order, inside an alternative every quantifier greedy     *)
(* with backtracking.                                                       *)

IsDigit(c) == c \in {"0", "1", "2", "3", "4", "5", "6", "7", "8", "9"}

CharAt(s, i, c) == i >= 1 /\ i <= Len(s) /\ s[i] = c

DigitsAt(s, i, n) == i >= 1 /\ i + n - 1 <= Len(s) /\ \A k \in i..(i + n - 1) : IsDigit(s[k])

Slice(s, i, n) == [k \in 1..n |-> s[i + k - 1]]

\* the ways \d{3,4} SEP  ?\d{3,4} can match, in the order the engine tries them:
\* <<digits of group 1, blanks taken by " ?", digits of group 2>>
PairTries == << <<4, 1, 4>>, <<4, 1, 3>>, <<4, 0, 4>>, <<4, 0, 3>>,
                <<3, 1, 4>>, <<3, 1, 3>>, <<3, 0, 4>>, <<3, 0, 3>> >>

PairMatches(s, i, sep, t) ==
    /\ DigitsAt(s, i, t[1])
    /\ CharAt(s, i + t[1], sep)
    /\ (t[2] = 1 => CharAt(s, i + t[1] + 1, " "))
    /\ DigitsAt(s, i + t[1] + 1 + t[2], t[3])

\* the ways the third alternative can match, greedy first
QuadTry(k) == <<4 - ((k - 1) \div 8), 4 - (((k - 1) \div 4) % 2),
                4 - (((k - 1) \div 2) % 2), 4 - ((k - 1) % 2)>>

QuadMatches(s, i, t) ==
    /\ DigitsAt(s, i, t[1])
    /\ CharAt(s, i + t[1], "-")
    /\ DigitsAt(s, i + t[1] + 1, t[2])
    /\ DigitsAt(s, i + t[1] + 1 + t[2], t[3])
    /\ CharAt(s, i + t[1] + 1 + t[2] + t[3], "-")
    /\ DigitsAt(s, i + t[1] + 2 + t[2] + t[3], t[4])

NoMatch == [end |-> 0, nums |-> <<>>]

\* one alternative of the pair form at position i: the first try that matches
PairAlt(s, i, sep) ==
    LET ok == {k \in 1..Len(PairTries) : PairMatches(s, i, sep, PairTries[k])}
    IN IF ok = {} THEN NoMatch
       ELSE LET t == PairTries[CHOOSE k \in ok : \A j \in ok : k <= j]
                g2 == i + t[1] + 1 + t[2]
            IN [end |-> g2 + t[3],
                nums |-> <<Slice(s, i, t[1]), Slice(s, g2, t[3])>>]

QuadAlt(s, i) ==
    LET ok == {k \in 1..16 : QuadMatches(s, i, QuadTry(k))}
    IN IF ok = {} THEN NoMatch
       ELSE LET t == QuadTry(CHOOSE k \in ok : \A j \in ok : k <= j)
                g2 == i + t[1] + 1
                g3 == g2 + t[2]
                g4 == g3 + t[3] + 1
            IN [end |-> g4 + t[4],
                nums |-> <<Slice(s, i, t[1]), Slice(s, g2, t[2]),
                           Slice(s, g3, t[3]), Slice(s, g4, t[4])>>]

\* line 93: the pattern at position i, alternatives left to right
match_at(s, i) ==
    IF PairAlt(s, i, "-") # NoMatch THEN PairAlt(s, i, "-")
    ELSE IF PairAlt(s, i, "/") # NoMatch THEN PairAlt(s, i, "/")
    ELSE QuadAlt(s, i)

\* line 94: re.findall, the non-empty groups of each match (line 98)
RECURSIVE findall(_, _)
findall(s, i) ==
    IF i > Len(s) THEN <<>>
    ELSE LET m == match_at(s, i)
         IN IF m = NoMatch THEN findall(s, i + 1)
            ELSE <<m.nums>> \o findall(s, m.end)

\* lines 99-102
format_match(nums) ==
    IF Len(nums) = 2 THEN nums[1] \o <<"-">> \o nums[2]
    ELSE nums[1] \o <<"-">> \o nums[2] \o <<" ">> \o nums[3] \o <<"-">> \o nums[4]

\* line 104: ' '.join
RECURSIVE join_blank(_)
join_blank(parts) ==
    IF parts = <<>> THEN <<>>
    ELSE IF Len(parts) = 1 THEN parts[1]
    ELSE parts[1] \o <<" ">> \o join_blank(Tail(parts))

format_frequency_range(freq_range) ==
    LET matches == findall(freq_range, 1)
    IN join_blank([k \in 1..Len(matches) |-> format_match(matches[k])])

----------------------------------------------------------------------------
(* Decisions.py: the cursor file (lines 46-60)                              *)

\* what LAST_VISITED_FILE can hold
FileOf(kind, lv) == [kind |-> kind, lv |-> lv]

Absent == FileOf("absent", None)              \* no such file

Empty == FileOf("empty", None)                \* opened for writing, nothing written

\* json.dump({'last_visited': href}) (line 58)
JsonCursor(href) == FileOf("json_object", href)

\* kinds of content json.load rejects with JSONDecodeError
NotJsonKinds == {"empty", "not_json"}

\* kinds of content json.load accepts and that are no JSON object
JsonNonObjectKinds == {"json_list", "json_string", "json_number", "json_null"}

Returned(v) == [raised |-> "no", value |-> v]

Raised(e) == [raised |-> e, value |-> None]

\* lines 46-53: open, json.load, data.get('last_visited'); only
\* FileNotFoundError and JSONDecodeError are caught
get_last_visited(f) ==
    IF f.kind = "absent" THEN Returned(None)
    ELSE IF f.kind \in NotJsonKinds THEN Returned(None)
    ELSE IF f.kind = "json_object" THEN Returned(f.lv)
    ELSE IF f.kind = "json_object_no_key" THEN Returned(None)
    ELSE Raised("AttributeError")

\* line 57: open(LAST_VISITED_FILE, 'w') truncates the file
save_open(f) == Empty

\* line 58
save_dump(href) == JsonCursor(href)

----------------------------------------------------------------------------
(* Decisions.py: extract_data (lines 106-152)                               *)
(* A text is a sequence of characters; the long fixed wordings of the       *)
(* column headers are single characters of the model, their blanks kept     *)
(* where the page may hold a no-break space.                                *)

NBSP == "\\xa0"

IsSpace(c) == c \in {" ", NBSP}

\* get_text(strip=True): white space, no-break space included, cut at both ends
RECURSIVE lstrip(_)
lstrip(t) == IF t # <<>> /\ IsSpace(Head(t)) THEN lstrip(Tail(t)) ELSE t

strip(t) == Reverse(lstrip(Reverse(lstrip(t))))

\* .replace('\xa0', ' ')
replace_nbsp(t) == [i \in 1..Len(t) |-> IF t[i] = NBSP THEN " " ELSE t[i]]

\* lines 118 and 122
cell_text(raw) == replace_nbsp(strip(raw))

\* str.split(' ') without maxsplit: cut at every blank
RECURSIVE split_every_space(_)
split_every_space(t) ==
    LET blanks == {i \in 1..Len(t) : t[i] = " "}
    IN IF blanks = {} THEN <<t>>
       ELSE LET i == CHOOSE b \in blanks : \A c \in blanks : b <= c
            IN <<SubSeq(t, 1, i - 1)>> \o split_every_space(SubSeq(t, i + 1, Len(t)))

\* line 141: tier_geo.split(' ', 1)
split_first_space(t) ==
    LET blanks == {i \in 1..Len(t) : t[i] = " "}
    IN IF blanks = {} THEN <<t>>
       ELSE LET i == CHOOSE b \in blanks : \A c \in blanks : b <= c
            IN <<SubSeq(t, 1, i - 1), SubSeq(t, i + 1, Len(t))>>

TIER_PREFIX == "Tier number and geographic area of the"

FREQ_PREFIX == "Frequency range (MHz)"

\* lines 133-137
TIER_LICENCE == <<TIER_PREFIX, " ", "licence">>

TIER_SUBORDINATE == <<TIER_PREFIX, " ", "subordinate licence">>

TIER_PRIMARY == <<TIER_PREFIX, " ", "primary licence">>

tier_fields == <<TIER_LICENCE, TIER_SUBORDINATE, TIER_PRIMARY>>

TIER_NUMBER == <<"Tier number">>

GEOGRAPHIC_AREA == <<"Geographic area of the licence">>

\* lines 125-130
FREQUENCY_RANGE == <<FREQ_PREFIX>>

FREQUENCY_PRIMARY == <<FREQ_PREFIX, " ", "of the primary licence">>

FREQUENCY_SUBORDINATE == <<FREQ_PREFIX, " ", "of the subordinate licence">>

frequency_fields == <<FREQUENCY_RANGE, FREQUENCY_PRIMARY, FREQUENCY_SUBORDINATE>>

TABLE_TITLE == <<"Table Title">>

UNKNOWN_TITLE == <<"Unknown Table Title">>

\* a Python dict as a function; d[k] = v and del d[k]
DictSet(d, k, v) == [x \in (DOMAIN d) \cup {k} |-> IF x = k THEN v ELSE d[x]]

DictDel(d, k) == [x \in (DOMAIN d) \ {k} |-> d[x]]

\* line 122: {headers[i]: text of col i}; a repeated header keeps its last cell
row_dict(headers, cols) ==
    [h \in {headers[i] : i \in 1..Len(cols)} |->
        cell_text(cols[CHOOSE i \in 1..Len(cols) :
            headers[i] = h /\ \A j \in 1..Len(cols) : headers[j] = h => j <= i])]

\* lines 125-130, one field
format_field(data, field) ==
    IF field \in DOMAIN data
    THEN DictSet(data, field, format_frequency_range(data[field]))
    ELSE data

\* lines 139-145, one field
split_field(data, field) ==
    IF field \in DOMAIN data
    THEN LET parts == split_first_space(data[field])
         IN DictDel(IF Len(parts) = 2
                    THEN DictSet(DictSet(data, TIER_NUMBER, parts[1]),
                                 GEOGRAPHIC_AREA, parts[2])
                    ELSE data,
                    field)
    ELSE data

\* lines 125-130: the three frequency fields in turn
RECURSIVE format_fields(_, _)
format_fields(fields, data) ==
    IF fields = <<>> THEN data
    ELSE format_fields(Tail(fields), format_field(data, Head(fields)))

\* lines 138-145: for field in tier_fields
RECURSIVE split_fields(_, _)
split_fields(fields, data) ==
    IF fields = <<>> THEN data
    ELSE split_fields(Tail(fields), split_field(data, Head(fields)))

\* lines 120-150 for one row of the table
extract_row(headers, cols, table_title) ==
    LET data == row_dict(headers, cols)
        formatted_data == format_fields(frequency_fields, data)
        split_data == split_fields(tier_fields, formatted_data)
    IN DictSet(split_data, TABLE_TITLE, table_title)

NoSoup == [kind |-> "none", caption |-> <<>>, headers |-> <<>>, rows |-> <<>>]

NoCaption == <<"no-caption">>

\* lines 106-152.  kind: "none" (no document), "no_table", "no_rows" (a table
\* without tr), "table" (headers: the th of the first tr; rows: the td of the others)
extract_data(s) ==
    IF s.kind \in {"none", "no_table", "no_rows"} THEN [raised |-> "no", rows |-> <<>>]
    ELSE LET headers == [i \in 1..Len(s.headers) |-> cell_text(s.headers[i])]
             table_title == IF s.caption = NoCaption THEN UNKNOWN_TITLE
                            ELSE strip(s.caption)
         IN IF \E r \in 1..Len(s.rows) : Len(s.rows[r]) > Len(headers)
            THEN [raised |-> "IndexError", rows |-> <<>>]
            ELSE [raised |-> "no",
                  rows |-> [r \in 1..Len(s.rows) |->
                               extract_row(headers, s.rows[r], table_title)]]

----------------------------------------------------------------------------
(* database.py: load_and_join_tiers (lines 9-35)                            *)
(* A tier file is a sequence of features [area, geom]; a geometry is a set  *)
(* of cells, two geometries intersect when they share a cell.  A layer      *)
(* (GeoDataFrame) is [columns, index, rows], a row a sequence of values in  *)
(* column order.                                                            *)

Missing == <<[area |-> <<"missing", 0, 0>>, geom |-> {}]>>

AREA_COLUMN == <<"Service_Area_Zone_de_service">>

GEOMETRY == <<"geometry">>

INDEX_RIGHT == <<"index_right">>

NaN == "nan"

\* f'Tier{tier - 1}_Service_Area_Zone_de_service' (line 32)
ParentColumn(tier) == <<"Tier", tier - 1, "_Service_Area_Zone_de_service">>

\* line 26: gpd.read_file
read_file(f) ==
    [columns |-> <<AREA_COLUMN, GEOMETRY>>,
     index   |-> [i \in 1..Len(f) |-> ToString(i - 1)],
     rows    |-> [i \in 1..Len(f) |-> <<f[i].area, f[i].geom>>]]

\* the rows of a left join of left row i with the rows of the right layer
RECURSIVE matches_of(_, _, _)
matches_of(lrow, right, j) ==
    IF j > Len(right.rows) THEN <<>>
    ELSE IF lrow[2] \cap right.rows[j][2] # {}
         THEN <<lrow \o <<right.index[j], right.rows[j][1]>>>> \o matches_of(lrow, right, j + 1)
         ELSE matches_of(lrow, right, j + 1)

RECURSIVE sjoin_rows(_, _, _)
sjoin_rows(left, right, i) ==
    IF i > Len(left.rows) THEN <<>>
    ELSE LET m == matches_of(left.rows[i], right, 1)
             kept == IF m = <<>> THEN <<left.rows[i] \o <<NaN, NaN>>>> ELSE m
         IN [row \in 1..Len(kept) |-> [r |-> kept[row], ix |-> left.index[i]]]
            \o sjoin_rows(left, right, i + 1)

\* lines 29-33: gpd.sjoin(how="left", predicate='intersects') against the
\* area and geometry columns of the right layer, and the rename
sjoin(left, right, tier) ==
    LET joined == sjoin_rows(left, right, 1)
    IN [columns |-> left.columns \o <<INDEX_RIGHT, ParentColumn(tier)>>,
        index   |-> [k \in 1..Len(joined) |-> joined[k].ix],
        rows    |-> [k \in 1..Len(joined) |-> joined[k].r]]

\* line 29: tier_gdfs[-1] raises IndexError on the empty list
join_previous(gdf, gdfs, tier) ==
    IF gdfs = <<>> THEN [raised |-> "IndexError", gdf |-> gdf]
    ELSE [raised |-> "no", gdf |-> sjoin(gdf, gdfs[Len(gdfs)], tier)]

\* lines 17-34
RECURSIVE load_loop(_, _, _, _)
load_loop(arch, tier, num_tiers, gdfs) ==
    IF tier > num_tiers THEN [raised |-> "no", gdfs |-> gdfs]
    ELSE IF arch[tier] = Missing THEN load_loop(arch, tier + 1, num_tiers, gdfs)
    ELSE LET tier_gdf == read_file(arch[tier])
         IN IF tier > 1
            THEN LET j == join_previous(tier_gdf, gdfs, tier)
                 IN IF j.raised # "no" THEN [raised |-> j.raised, gdfs |-> <<>>]
                    ELSE load_loop(arch, tier + 1, num_tiers, Append(gdfs, j.gdf))
            ELSE load_loop(arch, tier + 1, num_tiers, Append(gdfs, tier_gdf))

load_and_join_tiers(arch, num_tiers) == load_loop(arch, 1, num_tiers, <<>>)

----------------------------------------------------------------------------
(* database.py: table_exists, create_and_populate_tables (lines 37-57)      *)

\* f'Tier{tier}_Areas' (line 45)
TableName(tier) == <<"Tier", tier, "_Areas">>

\* lines 37-41
table_exists(conn, table_name) == table_name \in DOMAIN conn

\* line 46: the columns but geometry, then Geometry
schema_of(gdf) ==
    SelectSeq(gdf.columns, LAMBDA c : c # GEOMETRY) \o <<<<"Geometry">>>>

\* geometry.wkt
wkt(geom) == <<"POLYGON", geom>>

\* line 53: one value per column, in the order of gdf.columns
row_data(gdf, row) ==
    [c \in 1..Len(gdf.columns) |->
        IF gdf.columns[c] # GEOMETRY THEN <<"str", row[c]>> ELSE wkt(row[c])]

\* lines 47-48 as CREATE OR REPLACE TABLE
ensure_table_replace(conn, table_name, schema) ==
    [t \in (DOMAIN conn) \cup {table_name} |->
        IF t = table_name
        THEN [schema |-> schema, rows |-> <<>>,
              created |-> IF t \in DOMAIN conn THEN conn[t].created + 1 ELSE 1]
        ELSE conn[t]]

\* lines 47-48: CREATE TABLE unless the table exists
ensure_table(conn, table_name, schema) ==
    IF ~table_exists(conn, table_name)
    THEN [t \in (DOMAIN conn) \cup {table_name} |->
            IF t = table_name THEN [schema |-> schema, rows |-> <<>>, created |-> 1]
            ELSE conn[t]]
    ELSE conn

\* lines 56-57: INSERT INTO ... VALUES (?, ...) for every row
insert_rows(conn, table_name, gdf) ==
    [conn EXCEPT ![table_name].rows =
        @ \o [i \in 1..Len(gdf.rows) |-> row_data(gdf, gdf.rows[i])]]

\* lines 44-57: enumerate(tier_gdfs, start=1).  An INSERT whose number of
\* values is not the table's number of columns is rejected by the database.
RECURSIVE populate_loop(_, _, _)
populate_loop(conn, gdfs, tier) ==
    IF tier > Len(gdfs) THEN [raised |-> "no", conn |-> conn]
    ELSE LET gdf == gdfs[tier]
             with_table == ensure_table(conn, TableName(tier), schema_of(gdf))
         IN IF Len(with_table[TableName(tier)].schema) # Len(gdf.columns)
            THEN [raised |-> "BinderException", conn |-> with_table]
            ELSE populate_loop(insert_rows(with_table, TableName(tier), gdf), gdfs, tier + 1)

create_and_populate_tables(conn, gdfs) == populate_loop(conn, gdfs, 1)

----------------------------------------------------------------------------
(* Inputs of extract_decision_links                                         *)

MaxRows == 3

DocPath(n) == IF n = 1 THEN "/d1" ELSE IF n = 2 THEN "/d2" ELSE IF n = 3 THEN "/d3"
              ELSE IF n = 4 THEN "/d4" ELSE "/d5"

\* the absolute URL of decision page n
L(n) == <<BASE_URL, DocPath(n)>>

\* hrefs as they occur in a listing: relative, absolute on the site, absolute elsewhere
Hrefs == {<<"/d1">>, <<"/d2">>, <<BASE_URL, "/d1">>, <<OTHER_URL, "/d1">>}

\* rows: no anchor, an anchor without href, one link, a link after an anchor
\* without href, two links
Rows == {<<>>, <<NoHref>>}
        \cup {<<h>> : h \in Hrefs}
        \cup {<<NoHref, h>> : h \in Hrefs}
        \cup {<<h, <<"/d2">>>> : h \in Hrefs}

Cursors == {None, <<"/d1">>, L(1), L(2), <<OTHER_URL, "/d1">>, L(3)}

SmallListings == SeqsUpTo(Rows, MaxRows)

\* the listing of section 8: five rows, one relative link each, newest first
ExampleListing == [i \in 1..5 |-> <<<<DocPath(6 - i)>>>>]

\* the same five rows in any order
ExampleListings ==
    {[i \in 1..5 |-> <<<<DocPath(f[i])>>>>] :
        f \in {g \in [1..5 -> 1..5] : \A a, b \in 1..5 : a # b => g[a] # g[b]}}

ExampleCursors == {None} \cup {L(n) : n \in 1..5}

InitLinks ==
    /\ \/ main_soup \in SmallListings /\ last_visited \in Cursors
       \/ main_soup \in ExampleListings /\ last_visited \in ExampleCursors
    /\ links = <<>>
    /\ lpc = "call"

IdleLinks == main_soup = <<>> /\ last_visited = None /\ links = <<>> /\ lpc = "idle"

\* one call of extract_decision_links(main_soup, last_visited)
CallExtractLinks ==
    /\ lpc = "call"
    /\ links' = extract_decision_links(main_soup, last_visited)
    /\ lpc' = "done"
    /\ UNCHANGED <<main_soup, last_visited>>

----------------------------------------------------------------------------
(* Inputs of format_frequency_range                                         *)

\* the decimal digits of a number, as a text
RECURSIVE Digits(_)
Digits(n) ==
    LET d == <<"0", "1", "2", "3", "4", "5", "6", "7", "8", "9">>[(n % 10) + 1]
    IN IF n < 10 THEN <<d>> ELSE Digits(n \div 10) \o <<d>>

\* band edges of three and of four digits
Nums == {Digits(470), Digits(512), Digits(480), Digits(500), Digits(1710), Digits(2180)}

Hyphenated(a, b) == a \o <<"-">> \o b

Concatenated(a, b, c, d) == Hyphenated(a, b) \o Hyphenated(c, d)

FreqInputs ==
    {Hyphenated(a, b) : a \in Nums, b \in Nums}
    \cup {a \o <<"-", " ">> \o b : a \in Nums, b \in Nums}
    \cup {a \o <<"/">> \o b : a \in Nums, b \in Nums}
    \cup {a \o <<"/", " ">> \o b : a \in Nums, b \in Nums}
    \cup {Concatenated(q[1], q[2], q[3], q[4]) : q \in Nums \X Nums \X Nums \X Nums}
    \cup {<<>>, <<"n", "/", "a">>, Digits(47) \o <<"-">> \o Digits(51), Digits(470)}

InitFreq == freq_input \in FreqInputs /\ formatted = <<>> /\ fpc = "call"

IdleFreq == freq_input = <<>> /\ formatted = <<>> /\ fpc = "idle"

\* one call of format_frequency_range(freq_input)
CallFormat ==
    /\ fpc = "call"
    /\ formatted' = format_frequency_range(freq_input)
    /\ fpc' = "done"
    /\ UNCHANGED freq_input

----------------------------------------------------------------------------
(* The cursor file on its own: get_last_visited and save_last_visited       *)

MaxDocs == 3

NotSaved == <<"not-saved">>

CursorValues == {None, <<"/d1">>, <<OTHER_URL, "/d1">>} \cup {L(n) : n \in 1..MaxDocs}

\* every content the file can have: absent, empty, other text that is no
\* JSON, JSON that is no object, an object without the key, a cursor object
FileStates ==
    {Absent, Empty, FileOf("not_json", None), FileOf("json_object_no_key", None)}
    \cup {FileOf(k, None) : k \in JsonNonObjectKinds}
    \cup {JsonCursor(u) : u \in CursorValues}

InitCursor ==
    /\ file \in FileStates
    /\ got = Returned(None) /\ saved = NotSaved /\ cpc = "ready"

IdleCursor == got = Returned(None) /\ saved = NotSaved /\ cpc = "idle"

\* one call of get_last_visited()
CallGetLastVisited ==
    /\ cpc \in {"ready", "saved", "got"}
    /\ got' = get_last_visited(file)
    /\ cpc' = "got"
    /\ UNCHANGED <<file, saved>>

\* one call of save_last_visited(href): the file is rewritten, or open()
\* fails with IOError, which is logged (lines 59-60)
CallSaveLastVisited ==
    /\ cpc \in {"ready", "saved", "got"}
    /\ \E href \in CursorValues \ {None} :
         \/ /\ file' = save_dump(href)
            /\ saved' = href
         \/ /\ UNCHANGED file
            /\ saved' = NotSaved
    /\ cpc' = "saved"
    /\ UNCHANGED got

----------------------------------------------------------------------------
(* main of Decisions.py (lines 155-172), run after run                      *)

MaxRuns == 2

\* the listing of n decisions, newest first, one relative link per row
ListingOf(n) == [i \in 1..n |-> <<<<DocPath(n + 1 - i)>>>>]

NoPrev == [links |-> <<>>, written |-> {}, ended |-> "none"]

InitCrawl ==
    /\ file \in FileStates
    /\ listing \in {ListingOf(n) : n \in 0..MaxDocs}
    /\ run = 1 /\ pc = "start"
    /\ decision_links = <<>> /\ link_index = 0 /\ decision_soup = "none"
    /\ start_file = file
    /\ fetched_ok = {} /\ visited = <<>> /\ written = {}
    /\ prev = NoPrev

IdleCrawl ==
    /\ run = 0 /\ pc = "idle" /\ listing = <<>>
    /\ decision_links = <<>> /\ link_index = 0 /\ decision_soup = "none"
    /\ start_file = Absent
    /\ fetched_ok = {} /\ visited = <<>> /\ written = {}
    /\ prev = NoPrev

history == <<start_file, fetched_ok, visited, written, prev>>

\* lines 157-163: read the cursor, fetch the listing, extract the new links.
\* An exception of get_last_visited leaves main and is logged at line 177.
StartRun ==
    /\ pc = "start"
    /\ LET r == get_last_visited(file)
       IN IF r.raised # "no"
          THEN pc' = "failed" /\ UNCHANGED <<decision_links, link_index>>
          ELSE \/ \* fetch_and_parse_url returned None (lines 42-44)
                  /\ pc' = "no_listing"
                  /\ UNCHANGED <<decision_links, link_index>>
               \/ /\ decision_links' = extract_decision_links(listing, r.value)
                  /\ link_index' = 1
                  /\ pc' = IF decision_links' = <<>> THEN "done" ELSE "fetch"
    /\ UNCHANGED <<file, run, listing, decision_soup, history>>

\* line 165: fetch_decision_page returns the page, or None on an error
FetchDecisionPage ==
    /\ pc = "fetch"
    /\ \E result \in {"page", "none"} :
         /\ decision_soup' = result
         /\ fetched_ok' = IF result = "page"
                          THEN fetched_ok \cup {decision_links[link_index]}
                          ELSE fetched_ok
    /\ visited' = Append(visited, decision_links[link_index])
    /\ pc' = "extract"
    /\ UNCHANGED <<file, run, listing, decision_links, link_index,
                   start_file, written, prev>>

\* lines 166-168: extract_data returns and the records are logged
ExtractAndLog ==
    /\ pc = "extract"
    /\ pc' = "save"
    /\ UNCHANGED <<file, run, listing, decision_links, link_index, decision_soup, history>>

\* line 166: extract_data raises on a fetched page (a row with more cells
\* than headers); the exception leaves main
ExtractRaises ==
    /\ pc = "extract" /\ decision_soup = "page"
    /\ pc' = "crashed"
    /\ UNCHANGED <<file, run, listing, decision_links, link_index, decision_soup, history>>

\* the end of one pass of the loop of line 164
NextLink == IF link_index + 1 > Len(decision_links) THEN "done" ELSE "fetch"

\* line 57: open(..., 'w') truncates the file, or fails with IOError, which
\* is logged (lines 59-60) and the loop goes on
SaveOpen ==
    /\ pc = "save"
    /\ \/ /\ file' = save_open(file)
          /\ pc' = "dump"
          /\ UNCHANGED link_index
       \/ /\ UNCHANGED file
          /\ link_index' = link_index + 1
          /\ pc' = NextLink
    /\ UNCHANGED <<run, listing, decision_links, decision_soup, history>>

\* line 58: json.dump writes the cursor object; the file is closed
SaveDump ==
    /\ pc = "dump"
    /\ file' = save_dump(decision_links[link_index])
    /\ written' = written \cup {decision_links[link_index]}
    /\ link_index' = link_index + 1
    /\ pc' = NextLink
    /\ UNCHANGED <<run, listing, decision_links, decision_soup,
                   start_file, fetched_ok, visited, prev>>

\* the process is killed, or interrupted, inside the loop of line 164
Crash ==
    /\ pc \in {"fetch", "extract", "save", "dump"}
    /\ pc' = "crashed"
    /\ UNCHANGED <<file, run, listing, decision_links, link_index, decision_soup, history>>

\* the script is started again against the same listing
Restart ==
    /\ pc \in {"done", "no_listing", "failed", "crashed"}
    /\ run < MaxRuns
    /\ run' = run + 1
    /\ prev' = [links |-> decision_links, written |-> written, ended |-> pc]
    /\ pc' = "start"
    /\ decision_links' = <<>> /\ link_index' = 0 /\ decision_soup' = "none"
    /\ start_file' = file
    /\ fetched_ok' = {} /\ visited' = <<>> /\ written' = {}
    /\ UNCHANGED <<file, listing>>

----------------------------------------------------------------------------
(* Inputs of extract_data                                                   *)

MaxCols == 2

\* header cells as the page holds them, a blank possibly a no-break space
RawHeaders ==
    {TIER_LICENCE, <<TIER_PREFIX, NBSP, "licence">>, TIER_PRIMARY,
     TIER_NUMBER, FREQUENCY_RANGE}

\* data cells as the page holds them
RawCells ==
    {<<>>, <<"T">>, <<"T", " ", "3">>, <<"T", " ", " ", "3">>,
     <<" ", "T", NBSP, "3", " ", "S", NBSP>>, Hyphenated(Digits(470), Digits(512))}

\* a decision page: none, without table, with a table without rows, or with
\* a header row and at most one data row (rows are processed one by one)
Soups ==
    {NoSoup,
     [kind |-> "no_table", caption |-> <<>>, headers |-> <<>>, rows |-> <<>>],
     [kind |-> "no_rows", caption |-> <<>>, headers |-> <<>>, rows |-> <<>>]}
    \cup {[kind |-> "table", caption |-> c, headers |-> h, rows |-> r] :
            c \in {NoCaption, <<" ", "D">>},
            h \in SeqsUpTo(RawHeaders, MaxCols),
            r \in {<<>>} \cup {<<cols>> : cols \in SeqsUpTo(RawCells, MaxCols)}}

NoData == [raised |-> "no", rows |-> <<>>]

InitExtract == page_soup \in Soups /\ data_list = NoData /\ epc = "call"

IdleExtract == page_soup = NoSoup /\ data_list = NoData /\ epc = "idle"

\* one call of extract_data(page_soup)
CallExtractData ==
    /\ epc = "call"
    /\ data_list' = extract_data(page_soup)
    /\ epc' = "done"
    /\ UNCHANGED page_soup

----------------------------------------------------------------------------
(* The tier loader: main of database.py (lines 61-94), run after run        *)

NumTiers == 3

MaxFeatures == 2

MaxCalls == 2

Tiers == 1..NumTiers

\* the name of the k-th area of a tier
AreaName(tier, k) == <<"area", tier, k>>

Geoms == {{1}, {2}}

\* the files a tier can have: up to MaxFeatures features, named in order, the
\* first on either cell and the others on cell 1 (so that a feature of the
\* tier above meets none, one or several of them)
TierFiles(tier) ==
    {[k \in 1..n |-> [area |-> AreaName(tier, k), geom |-> IF k = 1 THEN g ELSE {1}]] :
        n \in 0..MaxFeatures, g \in Geoms}

NoLayers == [raised |-> "no", gdfs |-> <<>>]

EmptyStore == [t \in {} |-> 0]

InitLoader ==
    /\ archive \in {a \in [Tiers -> {Missing} \cup UNION {TierFiles(t) : t \in Tiers}] :
                      \A t \in Tiers : a[t] = Missing \/ a[t] \in TierFiles(t)}
    /\ tier_gdfs = NoLayers
    /\ store = EmptyStore
    /\ calls = 0
    /\ dpc = "start"

IdleLoader ==
    /\ archive = <<>> /\ tier_gdfs = NoLayers /\ store = EmptyStore
    /\ calls = 0 /\ dpc = "idle"

\* line 66: load_and_join_tiers; an exception ends main
CallLoadAndJoinTiers ==
    /\ dpc = "start"
    /\ tier_gdfs' = load_and_join_tiers(archive, NumTiers)
    /\ dpc' = IF tier_gdfs'.raised = "no" THEN "loaded" ELSE "failed"
    /\ UNCHANGED <<archive, store, calls>>

\* line 71: create_and_populate_tables on the layers just loaded; the
\* script run again loads the same layers and calls it again
CallCreateAndPopulateTables ==
    /\ dpc = "loaded"
    /\ calls < MaxCalls
    /\ LET r == create_and_populate_tables(store, tier_gdfs.gdfs)
       IN /\ store' = r.conn
          /\ dpc' = IF r.raised = "no" THEN "loaded" ELSE "failed"
    /\ calls' = calls + 1
    /\ UNCHANGED <<archive, tier_gdfs>>

----------------------------------------------------------------------------
(* The specifications: one per script function under study                  *)

OthersLinks == <<freqVars, file, cursorVars, crawlVars, extractVars, loaderVars>>

StartLinks ==
    /\ InitLinks
    /\ IdleFreq
    /\ file = Absent
    /\ IdleCursor
    /\ IdleCrawl
    /\ IdleExtract
    /\ IdleLoader

NextLinks ==
    \/ CallExtractLinks /\ UNCHANGED OthersLinks

SpecLinks == StartLinks /\ [][NextLinks]_vars

OthersFreq == <<linkVars, file, cursorVars, crawlVars, extractVars, loaderVars>>

StartFreq ==
    /\ InitFreq
    /\ IdleLinks
    /\ file = Absent
    /\ IdleCursor
    /\ IdleCrawl
    /\ IdleExtract
    /\ IdleLoader

NextFreq ==
    \/ CallFormat /\ UNCHANGED OthersFreq

SpecFreq == StartFreq /\ [][NextFreq]_vars

OthersCursor == <<linkVars, freqVars, crawlVars, extractVars, loaderVars>>

StartCursor ==
    /\ InitCursor
    /\ IdleLinks
    /\ IdleFreq
    /\ IdleCrawl
    /\ IdleExtract
    /\ IdleLoader

NextCursor ==
    \/ CallGetLastVisited /\ UNCHANGED OthersCursor
    \/ CallSaveLastVisited /\ UNCHANGED OthersCursor

SpecCursor == StartCursor /\ [][NextCursor]_vars

OthersCrawl == <<linkVars, freqVars, cursorVars, extractVars, loaderVars>>

StartCrawl ==
    /\ InitCrawl
    /\ IdleLinks
    /\ IdleFreq
    /\ IdleCursor
    /\ IdleExtract
    /\ IdleLoader

NextCrawl ==
    \/ StartRun /\ UNCHANGED OthersCrawl
    \/ FetchDecisionPage /\ UNCHANGED OthersCrawl
    \/ ExtractAndLog /\ UNCHANGED OthersCrawl
    \/ ExtractRaises /\ UNCHANGED OthersCrawl
    \/ SaveOpen /\ UNCHANGED OthersCrawl
    \/ SaveDump /\ UNCHANGED OthersCrawl
    \/ Crash /\ UNCHANGED OthersCrawl
    \/ Restart /\ UNCHANGED OthersCrawl

SpecCrawl == StartCrawl /\ [][NextCrawl]_vars

OthersExtract == <<linkVars, freqVars, file, cursorVars, crawlVars, loaderVars>>

StartExtract ==
    /\ InitExtract
    /\ IdleLinks
    /\ IdleFreq
    /\ file = Absent
    /\ IdleCursor
    /\ IdleCrawl
    /\ IdleLoader

NextExtract ==
    \/ CallExtractData /\ UNCHANGED OthersExtract

SpecExtract == StartExtract /\ [][NextExtract]_vars

OthersLoader == <<linkVars, freqVars, file, cursorVars, crawlVars, extractVars>>

StartLoader ==
    /\ InitLoader
    /\ IdleLinks
    /\ IdleFreq
    /\ file = Absent
    /\ IdleCursor
    /\ IdleCrawl
    /\ IdleExtract

NextLoader ==
    \/ CallLoadAndJoinTiers /\ UNCHANGED OthersLoader
    \/ CallCreateAndPopulateTables /\ UNCHANGED OthersLoader

SpecLoader == StartLoader /\ [][NextLoader]_vars

----------------------------------------------------------------------------
(* Claims about extract_decision_links                                      *)

\* the absolute URL a href denotes, stated independently of the code
IsAbsoluteOf(u, href) ==
    /\ Len(u) > 0 /\ Head(u) \in {BASE_URL, OTHER_URL}
    /\ (Len(href) > 0 /\ Head(href) \in {BASE_URL, OTHER_URL}) => u = href
    /\ ~(Len(href) > 0 /\ Head(href) \in {BASE_URL, OTHER_URL})
          => (Head(u) = BASE_URL /\ Tail(u) = href)

HasLink(row) == \E i \in 1..Len(row) : row[i] # NoHref

FirstLink(row) == row[CHOOSE i \in 1..Len(row) :
                        row[i] # NoHref /\ \A j \in 1..(i - 1) : row[j] = NoHref]

\* the rows whose first link denotes the cursor
CursorRows(rows, cursor) ==
    {i \in 1..Len(rows) : HasLink(rows[i]) /\ IsAbsoluteOf(cursor, FirstLink(rows[i]))}

\* the rows with a link that precede the first cursor row (all, if there is none)
NewRows(rows, cursor) ==
    {i \in 1..Len(rows) : HasLink(rows[i]) /\ \A c \in CursorRows(rows, cursor) : i < c}

\* C3: extract_decision_links returns, in reverse listing order, the absolute
\* URL of the first link of every row above the first row whose link equals
\* the cursor; rows without a link contribute nothing, the cursor's link and
\* the links below it are excluded, and with no cursor row (cursor none or in
\* no row) every row's link is returned.
C3_ExtractLinksPrefixReversed ==
    lpc = "done" =>
        LET new == NewRows(main_soup, last_visited)
        IN /\ Len(links) = Cardinality(new)
           /\ \A k \in 1..Len(links) :
                \E i \in new :
                    /\ Cardinality({j \in new : j > i}) = k - 1
                    /\ IsAbsoluteOf(links[k], FirstLink(main_soup[i]))

\* C3 witness: a call on a three-row listing whose cursor row is the second:
\* the link above it is returned, the linked row below it is excluded
C3_Witness ==
    /\ lpc = "done"
    /\ Len(main_soup) = 3
    /\ CursorRows(main_soup, last_visited) = {2}
    /\ HasLink(main_soup[1]) /\ HasLink(main_soup[3])
    /\ Len(links) = 1

\* C4 as stated: for the listing L5, L4, L3, L2, L1 and cursor L3 the result
\* is [L1, L2], the links below the cursor row.
C4_Original_LinksBelowCursor ==
    (lpc = "done" /\ main_soup = ExampleListing /\ last_visited = L(3))
        => links = <<L(1), L(2)>>

\* C4 amended: for the listing L5, L4, L3, L2, L1 and cursor L3 the result is
\* [L4, L5], the links above the cursor row, oldest first.
C4_LinksAboveCursor ==
    (lpc = "done" /\ main_soup = ExampleListing /\ last_visited = L(3))
        => links = <<L(4), L(5)>>

\* C4 witness: the call on the example listing with cursor L3 has returned
C4_Witness == lpc = "done" /\ main_soup = ExampleListing /\ last_visited = L(3)

----------------------------------------------------------------------------
(* Claims about format_frequency_range                                      *)

\* C5: for every input made of two hyphen ranges a-b and c-d written with no
\* separator between them (a, b, c, d of three or four digits),
\* format_frequency_range returns "a-b c-d".
C5_ConcatenatedRangesSeparated ==
    fpc = "done" =>
        \A q \in Nums \X Nums \X Nums \X Nums :
            freq_input = Concatenated(q[1], q[2], q[3], q[4])
                => formatted = Hyphenated(q[1], q[2]) \o <<" ">> \o Hyphenated(q[3], q[4])

----------------------------------------------------------------------------
(* Claims about the cursor file                                             *)

\* C6: get_last_visited never raises; on a file that is absent or holds no
\* well-formed cursor object it returns none; and after a save_last_visited(u)
\* that wrote the file it returns u.
C6_GetCursorNeverRaises ==
    cpc = "got" =>
        /\ got.raised = "no"
        /\ file.kind # "json_object" => got.value = None
        /\ saved # NotSaved => got.value = saved

----------------------------------------------------------------------------
(* Claims about the crawl run                                               *)

\* C1: in every state of a crawl run the persisted cursor is the one the run
\* started with or the URL of a decision page fetched in this run; a link
\* whose fetch returned none never becomes the persisted cursor.
C1_CursorOnlyFetchedPages ==
    (pc # "idle" /\ file.kind = "json_object")
        => (file = start_file \/ file.lv \in fetched_ok)

\* the position in a run's links of the last link the run wrote as cursor
LastWritten(p) ==
    LET w == {i \in 1..Len(p.links) : p.links[i] \in p.written}
    IN IF w = {} THEN 0 ELSE CHOOSE i \in w : \A j \in w : j <= i

\* C2: when a run crashed inside the loop over the new links and the next run
\* (same listing) has gone through its loop, that run visited, oldest first,
\* exactly the links of the crashed run that come after the last one it had
\* persisted as cursor: none of the persisted ones again, every later one.
C2_ResumeAfterLastPersisted ==
    (run >= 2 /\ pc = "done" /\ prev.ended = "crashed")
        => visited = SubSeq(prev.links, LastWritten(prev) + 1, Len(prev.links))

----------------------------------------------------------------------------
(* Claims about extract_data                                                *)

HasBlank(v) == \E i \in 1..Len(v) : v[i] = " "

\* the text before the first blank of v, and the text after it
IsBefore(t, v) ==
    \E i \in 1..Len(v) :
        /\ v[i] = " " /\ \A j \in 1..(i - 1) : v[j] # " "
        /\ t = SubSeq(v, 1, i - 1)

IsAfter(t, v) ==
    \E i \in 1..Len(v) :
        /\ v[i] = " " /\ \A j \in 1..(i - 1) : v[j] # " "
        /\ t = SubSeq(v, i + 1, Len(v))

\* the cells of the one data row, and its header texts
SourceCols == page_soup.rows[1]

SourceHeaders == [i \in 1..Len(page_soup.headers) |-> cell_text(page_soup.headers[i])]

InSource(field) == \E i \in 1..Len(SourceCols) : SourceHeaders[i] = field

SourceValue(field) ==
    cell_text(SourceCols[CHOOSE i \in 1..Len(SourceCols) :
        SourceHeaders[i] = field
        /\ \A j \in 1..Len(SourceCols) : SourceHeaders[j] = field => j <= i])

CombinedInSource == {f \in Range(tier_fields) : InSource(f)}

\* a record was returned for a row that has exactly one combined field
OneCombinedField ==
    /\ epc = "done" /\ data_list.raised = "no" /\ Len(data_list.rows) = 1
    /\ Cardinality(CombinedInSource) = 1

\* C9 as stated: the record of a row with a combined tier/area field has lost
\* that field and has 'Tier number' = the text before the first space and
\* 'Geographic area of the licence' = the text after it, whatever the value
\* (with no space: the whole value and the empty text).
C9_Original_AlwaysSplit ==
    OneCombinedField =>
        LET f == CHOOSE x \in CombinedInSource : TRUE
            v == SourceValue(f)
            rec == data_list.rows[1]
        IN /\ f \notin DOMAIN rec
           /\ TIER_NUMBER \in DOMAIN rec /\ GEOGRAPHIC_AREA \in DOMAIN rec
           /\ IF HasBlank(v)
              THEN IsBefore(rec[TIER_NUMBER], v) /\ IsAfter(rec[GEOGRAPHIC_AREA], v)
              ELSE rec[TIER_NUMBER] = v /\ rec[GEOGRAPHIC_AREA] = <<>>

\* a record was returned for a row that has some combined field
SomeCombinedField ==
    /\ epc = "done" /\ data_list.raised = "no" /\ Len(data_list.rows) = 1
    /\ CombinedInSource # {}

\* the combined fields of the row whose value contains a space, by their
\* place in tier_fields
SplittableFields ==
    {i \in 1..Len(tier_fields) :
        InSource(tier_fields[i]) /\ HasBlank(SourceValue(tier_fields[i]))}

\* C9 amended: the record of a row with combined tier/area fields has lost
\* them; when a combined value contains a space, 'Tier number' is the text
\* before its first space and 'Geographic area of the licence' the text after
\* it (taken from the last such field in the order licence, subordinate,
\* primary if the row has several); a combined value without a space is
\* removed without setting either field (they are then in the record only as
\* columns of the row itself, with the row's text).
C9_SplitOnFirstSpace ==
    SomeCombinedField =>
        LET rec == data_list.rows[1]
        IN /\ \A f \in CombinedInSource : f \notin DOMAIN rec
           /\ SplittableFields # {} =>
                LET last == CHOOSE i \in SplittableFields :
                                \A j \in SplittableFields : j <= i
                    v == SourceValue(tier_fields[last])
                IN /\ TIER_NUMBER \in DOMAIN rec /\ GEOGRAPHIC_AREA \in DOMAIN rec
                   /\ IsBefore(rec[TIER_NUMBER], v) /\ IsAfter(rec[GEOGRAPHIC_AREA], v)
           /\ SplittableFields = {} =>
                \A k \in {TIER_NUMBER, GEOGRAPHIC_AREA} :
                    /\ k \in DOMAIN rec <=> InSource(k)
                    /\ k \in DOMAIN rec => rec[k] = SourceValue(k)

\* C9 witness: a row whose combined field reads "T 3 S" once trimmed (its
\* first blank a no-break space on the page) has been split into "T" and "3 S"
C9_Witness ==
    /\ OneCombinedField
    /\ SourceValue(CHOOSE x \in CombinedInSource : TRUE) = <<"T", " ", "3", " ", "S">>
    /\ data_list.rows[1][TIER_NUMBER] = <<"T">>
    /\ data_list.rows[1][GEOGRAPHIC_AREA] = <<"3", " ", "S">>

----------------------------------------------------------------------------
(* Claims about the tier loader                                             *)

Present == {t \in Tiers : archive[t] # Missing}

\* the k-th present tier
PresentTier(k) == CHOOSE t \in Present : Cardinality({u \in Present : u < t}) = k - 1

\* C7: for every set of present tier files load_and_join_tiers does not
\* raise; it returns one layer per present tier, in tier order, and every
\* present tier above the lowest present one carries the join columns, its
\* parent areas being areas of the nearest lower present tier.
C7_LoadTiersNeverRaises ==
    dpc \in {"loaded", "failed"} =>
        /\ tier_gdfs.raised = "no"
        /\ Len(tier_gdfs.gdfs) = Cardinality(Present)
        /\ \A k \in 1..Len(tier_gdfs.gdfs) :
             LET gdf == tier_gdfs.gdfs[k]
             IN /\ \A i \in 1..Len(gdf.rows) : gdf.rows[i][1][2] = PresentTier(k)
                /\ k = 1 => Len(gdf.columns) = 2
                /\ k > 1 =>
                     /\ Len(gdf.columns) = 4
                     /\ \A i \in 1..Len(gdf.rows) :
                          \/ gdf.rows[i][4] = NaN
                          \/ gdf.rows[i][4][2] = PresentTier(k - 1)

\* the database row of a layer row, column by column
IsRowOf(dbrow, gdf, row) ==
    /\ Len(dbrow) = Len(gdf.columns)
    /\ \A c \in 1..Len(gdf.columns) :
         dbrow[c] = IF gdf.columns[c] = GEOMETRY THEN <<"POLYGON", row[c]>>
                    ELSE <<"str", row[c]>>

\* C8: starting without the tier tables, after k calls of
\* create_and_populate_tables with the same layers table Tier{n}_Areas holds
\* k times the rows of layer n: the table was created once, by the first
\* call, and every later call appended the layer's rows after the rows
\* already there, which it left as they were.
C8_AppendsWithoutDedup ==
    dpc = "loaded" =>
        /\ calls = 0 => DOMAIN store = {}
        /\ calls >= 1 =>
             /\ DOMAIN store = {TableName(n) : n \in 1..Len(tier_gdfs.gdfs)}
             /\ \A n \in 1..Len(tier_gdfs.gdfs) :
                  LET gdf == tier_gdfs.gdfs[n]
                      table == store[TableName(n)]
                      len == Len(gdf.rows)
                  IN /\ table.created = 1
                     /\ Len(table.rows) = calls * len
                     /\ \A i \in 1..Len(table.rows) :
                          IsRowOf(table.rows[i], gdf, gdf.rows[((i - 1) % len) + 1])

\* C8 witness: two calls have been made with two layers that have rows
C8_Witness ==
    /\ dpc = "loaded" /\ calls = 2
    /\ Len(tier_gdfs.gdfs) >= 2
    /\ \A n \in 1..2 : Len(store[TableName(n)].rows) = 2 * Len(tier_gdfs.gdfs[n].rows)
    /\ Len(tier_gdfs.gdfs[2].rows) >= 2

\* C10: in the loader pipeline the rows of the layer read from tier n's file
\* are inserted into table Tier{n}_Areas and into no other table, also when
\* the file of a lower tier is missing.
C10_RowsInOwnTierTable ==
    \A n \in Tiers :
        /\ TableName(n) \in DOMAIN store =>
              \A i \in 1..Len(store[TableName(n)].rows) :
                  store[TableName(n)].rows[i][1][2][2] = n
        /\ (calls >= 1 /\ dpc = "loaded" /\ archive[n] # Missing /\ archive[n] # <<>>) =>
              /\ TableName(n) \in DOMAIN store
              /\ \A k \in 1..Len(archive[n]) :
                    \E i \in 1..Len(store[TableName(n)].rows) :
                        store[TableName(n)].rows[i][1] = <<"str", archive[n][k].area>>

====
